---- MODULE Spec2Model ----
(***************************************************************************)
(* Data-access layer of the procurement frontend:                          *)
(*   - the persisted session store (localStorage keys 'token' and 'user'), *)
(*   - the axios interceptor pipeline (frontend/Api.js),                   *)
(*   - the auth flows built on it (frontend/ApiService.js, authService),   *)
(*   - the resource state machines useApi and usePaginatedApi.             *)
(* JavaScript values are tagged records, so that truthiness, string        *)
(* coercion and JSON conversion are computed as the runtime computes them. *)
(***************************************************************************)
EXTENDS Integers, Sequences, FiniteSets, TLC

\* ------------------------------------------------------------------ bounds
\* Calls issued through the pipeline in one behaviour.
MaxCalls == 2
\* Invocations of execute on the single-fetch machine in one behaviour.
MaxExec == 3
\* Fetches issued by the paginated machine in one behaviour.
MaxFetch == 3
\* Calls issued in one behaviour of the whole system (pipeline and both machines).
MaxTotal == 2

\* --------------------------------------------------------------- JS values
Undefined == [t |-> "undefined"]
Null == [t |-> "null"]
Str(s) == [t |-> "str", s |-> s]
Num(n) == [t |-> "num", n |-> n]
Array(items) == [t |-> "array", items |-> items]
UserObj(n) == [t |-> "obj", id |-> n]

\* JavaScript truthiness (the `if (x)`, `!!x`, `a || b` tests of the source).
Truthy(v) ==
  CASE v.t = "undefined" -> FALSE
    [] v.t = "null" -> FALSE
    [] v.t = "str" -> v.s # ""
    [] v.t = "num" -> v.n # 0
    [] OTHER -> TRUE

\* a || b
Or(a, b) == IF Truthy(a) THEN a ELSE b

DigitText == <<"0", "1", "2", "3", "4", "5", "6", "7", "8", "9">>

\* String(v): the coercion localStorage.setItem applies to its value.
StringOf(v) ==
  CASE v.t = "str" -> v.s
    [] v.t = "undefined" -> "undefined"
    [] v.t = "null" -> "null"
    [] OTHER -> "[object Object]"

\* JSON.stringify(v): undefined has no JSON text and yields undefined.
JSONStringify(v) ==
  CASE v.t = "undefined" -> Undefined
    [] v.t = "null" -> Str("null")
    [] v.t = "str" -> Str("\"" \o v.s \o "\"")
    [] OTHER -> Str("{\"id\":" \o DigitText[v.id + 1] \o "}")

\* The profiles a login response may carry, and the tokens.
Users == {UserObj(1), UserObj(2)}
Tokens == {"abc", "xyz"}

SyntaxError == [t |-> "SyntaxError"]
TypeError == [t |-> "TypeError", response |-> Undefined, request |-> Undefined, message |-> Str("Cannot read properties of undefined (reading 'message')")]

\* JSON.parse(text): the value whose JSON text this is, or a SyntaxError
\* (the text "undefined" is no JSON).
JSONParse(text) ==
  LET vals == {v \in Users \cup {Null} : JSONStringify(v) = Str(text)}
  IN  IF vals = {} THEN [threw |-> TRUE, v |-> SyntaxError]
      ELSE [threw |-> FALSE, v |-> CHOOSE v \in vals : TRUE]

\* ---------------------------------------------------------- session store
\* localStorage: each key holds a string, or getItem answers null.
getItem(ls, k) == ls[k]
setItem(ls, k, v) == [ls EXCEPT ![k] = Str(StringOf(v))]
removeItem(ls, k) == [ls EXCEPT ![k] = Null]

EmptyStore == [token |-> Null, user |-> Null]
NoWriter == [token |-> 0, user |-> 0]

VARIABLES
  localStorage,  \* the persisted session store
  writer,        \* history: per key, the login call that wrote it (0: none / an earlier page load)
  href,          \* window.location.href
  nextId,        \* next call id of the pipeline
  inflight,      \* calls dispatched to the transport and not yet settled
  dispatched,    \* history: per call, how often the transport was dispatched
  settled,       \* history: per call, how many outcomes were produced
  apiState,      \* useApi: the published {data, loading, error}
  callOnMount,   \* useApi: the auto-invoke option of this binding
  apiMounted,    \* useApi: whether the mount effect has run
  apiNext,       \* useApi: next invocation id
  apiPending,    \* useApi: invocations of execute awaiting the operation
  pgState,       \* usePaginatedApi: {data, loading, error, page, totalPages, totalItems}
  pgMounted,     \* usePaginatedApi: whether the mount effect has run
  pgNext,        \* usePaginatedApi: next fetch id
  pgPending,     \* usePaginatedApi: fetches awaiting the operation
  pgLast,        \* history: per page, what the fetch completed last for it ended with
  budget,        \* the number of calls (pipeline and machines) this behaviour may issue
  ev             \* history: the last operation and what it produced

pipeVars == <<localStorage, writer, href, nextId, inflight, dispatched, settled, budget>>
apiVars == <<apiState, callOnMount, apiMounted, apiNext, apiPending>>
pgVars == <<pgState, pgMounted, pgNext, pgPending, pgLast>>
vars == <<localStorage, writer, href, nextId, inflight, dispatched, settled,
          apiState, callOnMount, apiMounted, apiNext, apiPending,
          pgState, pgMounted, pgNext, pgPending, pgLast, budget, ev>>

\* Calls issued so far by the pipeline and both machines.
Issued == (nextId - 1) + (apiNext - 1) + (pgNext - 1)

CallIds == 1..MaxCalls
Ops == {"login", "register", "verify"}

\* ------------------------------------------------------------ request arm
DefaultConfig == [headers |-> [ContentType |-> Str("application/json"), Authorization |-> Undefined]]

RequestArmNoGuard(config, ls) ==
  [threw |-> FALSE,
   config |-> [config EXCEPT !.headers.Authorization = Str("Bearer " \o StringOf(getItem(ls, "token")))]]

\* api.interceptors.request.use: the fulfilled handler.
RequestArm(config, ls) ==
  LET token == getItem(ls, "token")
  IN  [threw |-> FALSE,
       config |-> IF Truthy(token)
                  THEN [config EXCEPT !.headers.Authorization = Str("Bearer " \o token.s)]
                  ELSE config]

\* ----------------------------------------------------------- response arm
Statuses == {401, 403, 404, 500, 418}
\* An error response's body: absent, an object without a message, one with.
ErrorData == {Undefined, [t |-> "obj", message |-> Undefined], [t |-> "obj", message |-> Str("denied")]}

StatusError(status, data) ==
  [t |-> "AxiosError", response |-> [t |-> "obj", status |-> status, data |-> data],
   request |-> [t |-> "obj"], message |-> Str("Request failed")]
NoResponseError ==
  [t |-> "AxiosError", response |-> Undefined, request |-> [t |-> "obj"], message |-> Str("Network Error")]
ConstructionError ==
  [t |-> "Error", response |-> Undefined, request |-> Undefined, message |-> Str("bad config")]

\* What the transport may fail a call with.
Failures ==
  {StatusError(s, d) : s \in Statuses, d \in {Undefined, [t |-> "obj", message |-> Str("denied")]}}
    \cup {NoResponseError, ConstructionError}

\* Response bodies of a successful call.
Bodies == [token : {Undefined, Str("")} \cup {Str(s) : s \in Tokens}, user : {Undefined} \cup Users]
Response(body) == [t |-> "obj", status |-> 200, data |-> body]

\* console.error(label, data.message): reading .message of an absent body throws.
LogMessage(label, data, st) ==
  IF Truthy(data) \/ data.t = "str"
  THEN [st EXCEPT !.console = Str(label)]
  ELSE [st EXCEPT !.threw = TRUE, !.reject = TypeError]

UnauthorizedKeepsUser(st) ==
  [st EXCEPT !.ls = removeItem(st.ls, "token"), !.href = "/login", !.navs = @ + 1]

\* case 401: both keys are removed and the location is set to the login page.
Unauthorized(st) ==
  [st EXCEPT !.ls = removeItem(removeItem(st.ls, "token"), "user"),
             !.href = "/login", !.navs = @ + 1]

\* The body of the rejected handler up to its return: the classification.
HandleError(error, st) ==
  IF Truthy(error.response)
  THEN LET status == error.response.status
           data == error.response.data
       IN  CASE status = 401 -> Unauthorized(st)
             [] status = 403 -> LogMessage("Access forbidden:", data, st)
             [] status = 404 -> LogMessage("Resource not found:", data, st)
             [] status = 500 -> LogMessage("Server error:", data, st)
             [] OTHER -> LogMessage("API Error:", data, st)
  ELSE IF Truthy(error.request)
  THEN [st EXCEPT !.console = Str("No response from server. Please check your connection.")]
  ELSE [st EXCEPT !.console = Str("Error:")]

\* What the handler starts from: the store, the location, nothing logged.
HandlerEntry(ls, loc) ==
  [ls |-> ls, href |-> loc, navs |-> 0, console |-> Undefined,
   threw |-> FALSE, outcome |-> "pending", reject |-> Undefined]

ResponseRejectedNoReject(error, ls, loc) ==
  LET st == HandleError(error, HandlerEntry(ls, loc))
  IN  IF st.threw THEN [st EXCEPT !.outcome = "rejected"]
      ELSE [st EXCEPT !.outcome = "resolved"]

\* The rejected handler of api.interceptors.response.use: the store and
\* location it leaves, what it logged and how its promise settles: with
\* what it threw, or else by its return Promise.reject(error).
ResponseRejected(error, ls, loc) ==
  LET st == HandleError(error, HandlerEntry(ls, loc))
  IN  IF st.threw THEN [st EXCEPT !.outcome = "rejected"]
      ELSE [st EXCEPT !.outcome = "rejected", !.reject = error]

\* The fulfilled handler: the response, unchanged.
ResponseFulfilled(response) == response

\* ------------------------------------------------------------- auth flows
LoginStoreUnguarded(ls, wr, id, data) ==
  [ls |-> setItem(setItem(ls, "token", data.token), "user", JSONStringify(data.user)),
   wr |-> [token |-> id, user |-> id]]

LoginStoreRaw(ls, wr, id, data) ==
  IF Truthy(data.token)
  THEN [ls |-> setItem(setItem(ls, "token", data.token), "user", data.user),
        wr |-> [token |-> id, user |-> id]]
  ELSE [ls |-> ls, wr |-> wr]

LoginStoreTokenOnly(ls, wr, id, data) ==
  IF Truthy(data.token)
  THEN [ls |-> setItem(ls, "token", data.token), wr |-> [wr EXCEPT !.token = id]]
  ELSE [ls |-> ls, wr |-> wr]

\* authService.login after its await: the store it leaves (and, per key,
\* the call that wrote it).
LoginStore(ls, wr, id, data) ==
  IF Truthy(data.token)
  THEN [ls |-> setItem(setItem(ls, "token", data.token), "user", JSONStringify(data.user)),
        wr |-> [token |-> id, user |-> id]]
  ELSE [ls |-> ls, wr |-> wr]

LogoutStoreTokenOnly(ls) == removeItem(ls, "token")

\* authService.logout
LogoutStore(ls) == removeItem(removeItem(ls, "token"), "user")

\* authService.getCurrentUser
getCurrentUser(ls) ==
  LET userStr == getItem(ls, "user")
  IN  IF Truthy(userStr) THEN JSONParse(userStr.s) ELSE [threw |-> FALSE, v |-> Null]

\* authService.isAuthenticated
isAuthenticated(ls) == Truthy(getItem(ls, "token"))

\* ---------------------------------------------------------------- actions
\* A service call (login, register, verify): the request arm runs on the
\* descriptor and the transport is dispatched.
Issue(op) ==
  /\ nextId <= MaxCalls
  /\ Issued < budget
  /\ LET arm == RequestArm(DefaultConfig, localStorage)
     IN  /\ inflight' = IF arm.threw THEN inflight
                        ELSE inflight \cup {[id |-> nextId, op |-> op, config |-> arm.config]}
         /\ dispatched' = [dispatched EXCEPT ![nextId] = IF arm.threw THEN @ ELSE @ + 1]
         /\ settled' = [settled EXCEPT ![nextId] = IF arm.threw THEN @ + 1 ELSE @]
         /\ ev' = [kind |-> "request", id |-> nextId, op |-> op, threw |-> arm.threw,
                   config |-> arm.config, tokenAtIssue |-> getItem(localStorage, "token")]
  /\ nextId' = nextId + 1
  /\ UNCHANGED <<localStorage, writer, href, budget>>
  /\ UNCHANGED <<apiVars, pgVars>>

\* The transport answers call c with a response: the fulfilled handler runs,
\* then the service function that awaited it.
SettleSuccess(c, body) ==
  /\ c \in inflight
  /\ LET response == ResponseFulfilled(Response(body))
         st == IF c.op = "login" THEN LoginStore(localStorage, writer, c.id, response.data)
               ELSE [ls |-> localStorage, wr |-> writer]
     IN  /\ localStorage' = st.ls
         /\ writer' = st.wr
         /\ ev' = [kind |-> "settle", id |-> c.id, op |-> c.op, transport |-> Response(body),
                   pipe |-> "resolved", pipeValue |-> response,
                   outcome |-> "resolved", value |-> response.data, navs |-> 0]
  /\ inflight' = inflight \ {c}
  /\ settled' = [settled EXCEPT ![c.id] = @ + 1]
  /\ UNCHANGED <<href, nextId, dispatched, budget>>
  /\ UNCHANGED <<apiVars, pgVars>>

\* Whether call c was sent with another Authorization than a request
\* issued now would carry.
Stale(c) ==
  c.config.headers.Authorization # RequestArm(DefaultConfig, localStorage).config.headers.Authorization

SettleFailureFenced(c, error) ==
  /\ c \in inflight
  /\ LET handled == ResponseRejected(error, localStorage, href)
         st == IF Stale(c) THEN [handled EXCEPT !.ls = localStorage, !.href = href, !.navs = 0]
               ELSE handled
     IN  /\ localStorage' = st.ls
         /\ writer' = [k \in {"token", "user"} |-> IF st.ls[k] = Null THEN 0 ELSE writer[k]]
         /\ href' = st.href
         /\ ev' = [kind |-> "settle", id |-> c.id, op |-> c.op, transport |-> error,
                   pipe |-> st.outcome, pipeValue |-> st.reject,
                   outcome |-> st.outcome, value |-> st.reject, navs |-> st.navs,
                   carried |-> c.config.headers.Authorization, stale |-> Stale(c),
                   session |-> writer.token]
  /\ inflight' = inflight \ {c}
  /\ settled' = [settled EXCEPT ![c.id] = @ + 1]
  /\ UNCHANGED <<nextId, dispatched, budget>>
  /\ UNCHANGED <<apiVars, pgVars>>

\* The transport fails call c: the rejected handler runs, and the awaiting
\* service function rejects with what the handler rejected with.
SettleFailure(c, error) ==
  /\ c \in inflight
  /\ LET st == ResponseRejected(error, localStorage, href)
     IN  /\ localStorage' = st.ls
         /\ writer' = [k \in {"token", "user"} |-> IF st.ls[k] = Null THEN 0 ELSE writer[k]]
         /\ href' = st.href
         /\ ev' = [kind |-> "settle", id |-> c.id, op |-> c.op, transport |-> error,
                   pipe |-> st.outcome, pipeValue |-> st.reject,
                   outcome |-> st.outcome, value |-> st.reject, navs |-> st.navs,
                   carried |-> c.config.headers.Authorization, stale |-> Stale(c),
                   session |-> writer.token]
  /\ inflight' = inflight \ {c}
  /\ settled' = [settled EXCEPT ![c.id] = @ + 1]
  /\ UNCHANGED <<nextId, dispatched, budget>>
  /\ UNCHANGED <<apiVars, pgVars>>

\* authService.logout(): synchronous.
Logout ==
  /\ localStorage' = LogoutStore(localStorage)
  /\ writer' = [k \in {"token", "user"} |-> IF LogoutStore(localStorage)[k] = Null THEN 0 ELSE writer[k]]
  /\ ev' = [kind |-> "logout",
            streak |-> IF ev.kind = "logout" /\ ev.streak < 2 THEN ev.streak + 1
                       ELSE IF ev.kind = "logout" THEN ev.streak ELSE 1]
  /\ UNCHANGED <<href, nextId, inflight, dispatched, settled, budget>>
  /\ UNCHANGED <<apiVars, pgVars>>

PipeInit ==
  /\ localStorage \in {EmptyStore, [token |-> Str("abc"), user |-> JSONStringify(UserObj(1))]}
  /\ writer = NoWriter
  /\ href = "/"
  /\ nextId = 1
  /\ inflight = {}
  /\ dispatched = [i \in CallIds |-> 0]
  /\ settled = [i \in CallIds |-> 0]

PipeNext ==
  \/ \E op \in Ops : Issue(op)
  \/ \E c \in inflight, body \in Bodies : SettleSuccess(c, body)
  \/ \E c \in inflight, error \in Failures : SettleFailure(c, error)
  \/ Logout


\* ------------------------------------------------- useApi (single fetch)
\* What the bound operation may resolve to, and the failures it may raise.
Results == {Str("X"), Str("Y")}
BareError == [t |-> "Error", response |-> Undefined, request |-> Undefined, message |-> Undefined]
ApiErrors == {StatusError(500, d) : d \in ErrorData} \cup {NoResponseError, TypeError, BareError}
\* Argument lists execute is called with.
ArgLists == {<<>>, <<Str("q")>>}

\* err.response?.data?.message
ResponseMessage(err) ==
  IF err.response \in {Undefined, Null} THEN Undefined
  ELSE IF err.response.data \in {Undefined, Null} THEN Undefined
  ELSE err.response.data.message

\* useState(null), useState(callOnMount), useState(null)
UseApiInit(onMount) == [data |-> Null, loading |-> onMount, error |-> Null]

ExecuteStartClearsData(s) == [s EXCEPT !.loading = TRUE, !.error = Null, !.data = Null]

\* execute, up to its await: setLoading(true); setError(null).
ExecuteStart(s) == [s EXCEPT !.loading = TRUE, !.error = Null]

\* execute, the operation resolved: setData(result); finally setLoading(false).
ExecuteResolved(s, result) == [s EXCEPT !.data = result, !.loading = FALSE]

ExecuteRejectedKeepsLoading(s, err) ==
  [s EXCEPT !.error = Or(Or(ResponseMessage(err), err.message), Str("An error occurred"))]

\* execute, the operation failed: setError(message); finally setLoading(false).
ExecuteRejected(s, err) ==
  [s EXCEPT !.error = Or(Or(ResponseMessage(err), err.message), Str("An error occurred")),
            !.loading = FALSE]

\* execute's own promise: return result / throw err.
ExecuteReturn(result) == [outcome |-> "resolved", value |-> result]

ExecuteRethrowMessage(err) ==
  [outcome |-> "rejected",
   value |-> Or(Or(ResponseMessage(err), err.message), Str("An error occurred"))]

ExecuteRethrow(err) == [outcome |-> "rejected", value |-> err]

\* One invocation of execute(...args): the state it publishes before it
\* awaits the operation, and the pending invocation (alone: no other
\* invocation was pending at any moment of this one).
Invoke(args, why) ==
  /\ apiNext <= MaxExec
  /\ Issued < budget
  /\ apiState' = ExecuteStart(apiState)
  /\ apiPending' = {[p EXCEPT !.alone = FALSE] : p \in apiPending}
                    \cup {[id |-> apiNext, args |-> args, alone |-> apiPending = {}]}
  /\ apiNext' = apiNext + 1
  /\ ev' = [kind |-> "execute", id |-> apiNext, args |-> args, why |-> why,
            alone |-> apiPending = {}]

\* The effect of the first render: execute() when callOnMount.
ApiMountEffect ==
  /\ ~apiMounted
  /\ apiMounted' = TRUE
  /\ IF callOnMount THEN Invoke(<<>>, "mount")
     ELSE /\ ev' = [kind |-> "mount"]
          /\ UNCHANGED <<apiState, apiNext, apiPending>>
  /\ UNCHANGED <<callOnMount, pipeVars, pgVars>>

\* The host re-renders with another apiFunction: execute is a new callback
\* and the effect, which depends on it, runs again.
ApiResupply ==
  /\ apiMounted
  /\ callOnMount
  /\ Invoke(<<>>, "resupply")
  /\ UNCHANGED <<callOnMount, apiMounted, pipeVars, pgVars>>

\* execute(...args) / refetch(...args) called by the host.
ApiExecute(args) ==
  /\ apiMounted
  /\ Invoke(args, "call")
  /\ UNCHANGED <<callOnMount, apiMounted, pipeVars, pgVars>>

\* The operation of invocation c resolves to result.
ApiSettleOk(c, result) ==
  /\ c \in apiPending
  /\ apiState' = ExecuteResolved(apiState, result)
  /\ apiPending' = apiPending \ {c}
  /\ ev' = [kind |-> "executed", id |-> c.id, outcome |-> "resolved", value |-> result,
            promise |-> ExecuteReturn(result), alone |-> c.alone]
  /\ UNCHANGED <<callOnMount, apiMounted, apiNext, pipeVars, pgVars>>

\* The operation of invocation c fails with err.
ApiSettleErr(c, err) ==
  /\ c \in apiPending
  /\ apiState' = ExecuteRejected(apiState, err)
  /\ apiPending' = apiPending \ {c}
  /\ ev' = [kind |-> "executed", id |-> c.id, outcome |-> "rejected", value |-> err,
            promise |-> ExecuteRethrow(err), alone |-> c.alone]
  /\ UNCHANGED <<callOnMount, apiMounted, apiNext, pipeVars, pgVars>>

ApiInit ==
  /\ callOnMount \in BOOLEAN
  /\ apiState = UseApiInit(callOnMount)
  /\ apiMounted = FALSE
  /\ apiNext = 1
  /\ apiPending = {}

ApiNext ==
  \/ ApiMountEffect
  \/ ApiResupply
  \/ \E args \in ArgLists : ApiExecute(args)
  \/ \E c \in apiPending, result \in Results : ApiSettleOk(c, result)
  \/ \E c \in apiPending, err \in ApiErrors : ApiSettleErr(c, err)

\* ------------------------------------------- usePaginatedApi (paginated)
\* pageSize = 10, the default of usePaginatedApi.
DefaultPageSize == 10
InitialPages == {1, 2}
\* The item sequences the backend may answer a request for page p with
\* (an item tells the page it was requested for).
ItemLists(p) == {Array(<<[page |-> p, item |-> i]>>) : i \in {"a", "b"}}
\* What the bound operation may resolve to: a sequence, an object with an
\* optional data, totalPages and totalItems or total, or null.
PagedObjects(p) ==
  {[t |-> "obj", data |-> d, totalPages |-> tp, totalItems |-> Undefined, total |-> Undefined] :
     d \in ItemLists(p) \cup {Undefined}, tp \in {Undefined, Num(1), Num(3)}}
  \cup
  {[t |-> "obj", data |-> d, totalPages |-> Num(3), totalItems |-> n[1], total |-> n[2]] :
     d \in ItemLists(p), n \in {<<Num(7), Undefined>>, <<Undefined, Num(9)>>}}
PagedResults(p) == PagedObjects(p) \cup ItemLists(p) \cup {Null}
PgErrors == {StatusError(500, d) : d \in ErrorData} \cup {NoResponseError}
\* Page numbers goToPage is called with.
PageArgs == 0..4
\* The pages a fetch is issued for.
Pages == 1..3

\* result.f of a resolved value: a sequence has none of the fields read.
Field(result, f) == IF result.t = "obj" THEN result[f] ELSE Undefined

UsePaginatedInit(initialPage) ==
  [data |-> Array(<<>>), loading |-> FALSE, error |-> Null,
   page |-> initialPage, totalPages |-> 0, totalItems |-> 0]

\* fetchData, up to its await: setLoading(true); setError(null).
FetchStart(s) == [s EXCEPT !.loading = TRUE, !.error = Null]

FetchRejectedClearsData(s, err) ==
  [s EXCEPT !.error = Or(ResponseMessage(err), Str("Failed to fetch data")),
            !.loading = FALSE, !.data = Array(<<>>)]

\* fetchData, the operation failed (or the result could not be read):
\* setError(message); finally setLoading(false).
FetchRejected(s, err) ==
  [s EXCEPT !.error = Or(ResponseMessage(err), Str("Failed to fetch data")),
            !.loading = FALSE]

FetchResolvedClampsPage(s, result) ==
  IF result \in {Null, Undefined} THEN FetchRejected(s, TypeError)
  ELSE [s EXCEPT !.data = Or(Field(result, "data"), result),
                 !.totalPages = Or(Field(result, "totalPages"), Num(0)).n,
                 !.totalItems = Or(Or(Field(result, "totalItems"), Field(result, "total")), Num(0)).n,
                 !.page = IF s.page > Or(Field(result, "totalPages"), Num(1)).n
                          THEN Or(Field(result, "totalPages"), Num(1)).n ELSE s.page,
                 !.loading = FALSE]

\* Whether fetchData got through its try block with this result.
Readable(result) == result \notin {Null, Undefined}

\* fetchData, the operation resolved: setData, setTotalPages, setTotalItems;
\* finally setLoading(false). Reading .data of null throws into the catch.
FetchResolved(s, result) ==
  IF ~Readable(result) THEN FetchRejected(s, TypeError)
  ELSE [s EXCEPT !.data = Or(Field(result, "data"), result),
                 !.totalPages = Or(Field(result, "totalPages"), Num(0)).n,
                 !.totalItems = Or(Or(Field(result, "totalItems"), Field(result, "total")), Num(0)).n,
                 !.loading = FALSE]

FetchStalePage(s, pageNum, why) ==
  /\ pgNext <= MaxFetch
  /\ Issued < budget
  /\ pgState' = FetchStart(s)
  /\ pgPending' = pgPending \cup {[id |-> pgNext, params |-> [page |-> pgState.page, limit |-> DefaultPageSize]]}
  /\ pgNext' = pgNext + 1
  /\ ev' = [kind |-> "fetch", id |-> pgNext, why |-> why,
            params |-> [page |-> pgState.page, limit |-> DefaultPageSize]]

\* One call of fetchData(pageNum): the operation is invoked with
\* {page: pageNum, limit: pageSize}.
Fetch(s, pageNum, why) ==
  /\ pgNext <= MaxFetch
  /\ Issued < budget
  /\ pgState' = FetchStart(s)
  /\ pgPending' = pgPending \cup {[id |-> pgNext, params |-> [page |-> pageNum, limit |-> DefaultPageSize]]}
  /\ pgNext' = pgNext + 1
  /\ ev' = [kind |-> "fetch", id |-> pgNext, why |-> why,
            params |-> [page |-> pageNum, limit |-> DefaultPageSize]]

\* The effect of the first render: fetchData(page).
PgMountEffect ==
  /\ ~pgMounted
  /\ pgMounted' = TRUE
  /\ Fetch(pgState, pgState.page, "mount")
  /\ UNCHANGED <<pgLast, pipeVars, apiVars>>

\* nextPage / prevPage / goToPage: under the guard, setPage(target); a page
\* that changed re-renders and the effect on [page, fetchData] runs
\* fetchData(page). setPage with the page already held changes nothing.
Navigate(op, ok, target) ==
  /\ pgMounted
  /\ IF ok /\ target # pgState.page
     THEN Fetch([pgState EXCEPT !.page = target], target, op)
     ELSE /\ ev' = [kind |-> "noop", why |-> op]
          /\ UNCHANGED <<pgState, pgNext, pgPending>>
  /\ UNCHANGED <<pgMounted, pgLast, pipeVars, apiVars>>

nextPageInclusive ==
  Navigate("nextPage", pgState.page <= pgState.totalPages, pgState.page + 1)

nextPage == Navigate("nextPage", pgState.page < pgState.totalPages, pgState.page + 1)

prevPage == Navigate("prevPage", pgState.page > 1, pgState.page - 1)

goToPage(pageNum) ==
  Navigate("goToPage", pageNum >= 1 /\ pageNum <= pgState.totalPages, pageNum)

\* refetch(): fetchData with its default argument, the current page.
PgRefetch ==
  /\ pgMounted
  /\ Fetch(pgState, pgState.page, "refetch")
  /\ UNCHANGED <<pgMounted, pgLast, pipeVars, apiVars>>

\* The operation of fetch c resolves to result.
PgSettleOk(c, result) ==
  /\ c \in pgPending
  /\ pgState' = FetchResolved(pgState, result)
  /\ pgPending' = pgPending \ {c}
  /\ ev' = [kind |-> "fetched", id |-> c.id, params |-> c.params, outcome |-> "resolved"]
  /\ pgLast' = [pgLast EXCEPT ![c.params.page] = [ok |-> Readable(result)]]
  /\ UNCHANGED <<pgMounted, pgNext, pipeVars, apiVars>>

\* The operation of fetch c fails with err.
PgSettleErr(c, err) ==
  /\ c \in pgPending
  /\ pgState' = FetchRejected(pgState, err)
  /\ pgPending' = pgPending \ {c}
  /\ ev' = [kind |-> "fetched", id |-> c.id, params |-> c.params, outcome |-> "rejected"]
  /\ pgLast' = [pgLast EXCEPT ![c.params.page] = [ok |-> FALSE]]
  /\ UNCHANGED <<pgMounted, pgNext, pipeVars, apiVars>>

PgInit ==
  /\ pgState \in {UsePaginatedInit(p) : p \in InitialPages}
  /\ pgMounted = FALSE
  /\ pgNext = 1
  /\ pgPending = {}
  /\ pgLast = [p \in Pages |-> Null]

PgNext ==
  \/ PgMountEffect
  \/ nextPage
  \/ prevPage
  \/ \E n \in PageArgs : goToPage(n)
  \/ PgRefetch
  \/ \E c \in pgPending : \E result \in PagedResults(c.params.page) : PgSettleOk(c, result)
  \/ \E c \in pgPending, err \in PgErrors : PgSettleErr(c, err)

\* --------------------------------------------------------- specifications
Init ==
  /\ PipeInit
  /\ ApiInit
  /\ PgInit
  /\ ev = [kind |-> "init"]

Next == PipeNext \/ ApiNext \/ PgNext

\* The whole system: a signed-in user on a screen that binds an
\* auto-invoking useApi and a usePaginatedApi starting at page 1.
InitSystem ==
  /\ Init
  /\ localStorage # EmptyStore
  /\ callOnMount
  /\ pgState.page = 1
  /\ budget = MaxTotal
Spec == InitSystem /\ [][Next]_vars

\* The session store, the pipeline and the auth flows (no machine is bound).
InitPipe ==
  /\ Init
  /\ ~callOnMount
  /\ pgState.page = 1
  /\ budget = MaxCalls
SpecPipe == InitPipe /\ [][PipeNext]_vars

\* One useApi binding (nothing is persisted, no pipeline call is made).
InitApi ==
  /\ Init
  /\ localStorage = EmptyStore
  /\ pgState.page = 1
  /\ budget = MaxExec
SpecApi == InitApi /\ [][ApiNext]_vars

\* One usePaginatedApi binding.
InitPaged ==
  /\ Init
  /\ localStorage = EmptyStore
  /\ ~callOnMount
  /\ budget = MaxFetch
SpecPaged == InitPaged /\ [][PgNext]_vars

\* Both machines bound on one screen, every issued call settling in the
\* end: the promise of the operation awaited by each call settles.
ApiSettle ==
  \E c \in apiPending :
    \/ \E result \in Results : ApiSettleOk(c, result)
    \/ \E err \in ApiErrors : ApiSettleErr(c, err)

PgSettle ==
  \E c \in pgPending :
    \/ \E result \in PagedResults(c.params.page) : PgSettleOk(c, result)
    \/ \E err \in PgErrors : PgSettleErr(c, err)

InitMachines ==
  /\ Init
  /\ localStorage = EmptyStore
  /\ pgState.page = 1
  /\ budget = MaxTotal

MachinesNext == ApiNext \/ PgNext

Scheduling ==
  /\ WF_vars(ApiSettle)
  /\ WF_vars(PgSettle)

SpecLive == InitMachines /\ [][MachinesNext]_vars /\ Scheduling

\* ------------------------------------------------------------- properties
\* The last operation was the settlement of a pipeline call that failed /
\* that the server answered with this status.
FailedSettle == ev.kind = "settle" /\ ev.transport.t # "obj"
StatusSettle(status) ==
  FailedSettle /\ Truthy(ev.transport.response) /\ ev.transport.response.status = status
\* The same, of the operation this step performs.
FailedSettleNext == ev'.kind = "settle" /\ ev' # ev /\ ev'.transport.t # "obj"
StatusSettleNext(status) ==
  FailedSettleNext /\ Truthy(ev'.transport.response) /\ ev'.transport.response.status = status

\* C1: the request arm returns the descriptor and never fails; the
\* Authorization header it leaves is exactly 'Bearer T' when the store held
\* the token T as the request was issued, and is not set when it held none.
C1_RequestArm ==
  ev.kind = "request" =>
    /\ ~ev.threw
    /\ dispatched[ev.id] = 1
    /\ ev.config.headers.ContentType = DefaultConfig.headers.ContentType
    /\ IF ev.tokenAtIssue # Null
       THEN ev.config.headers.Authorization = Str("Bearer " \o ev.tokenAtIssue.s)
       ELSE ev.config.headers.Authorization = Undefined

\* A request issued under a token a login of this page stored.
C1_Witness ==
  /\ ev.kind = "request"
  /\ ev.tokenAtIssue = Str("xyz")
  /\ ev.config.headers.Authorization = Str("Bearer xyz")

\* C2: after the response arm handled a 401, the token and the user are
\* absent from the store, the navigation to the login page was triggered
\* exactly once for that response, and the caller's promise rejects.
C2_Unauthorized ==
  StatusSettle(401) =>
    /\ getItem(localStorage, "token") = Null
    /\ getItem(localStorage, "user") = Null
    /\ ev.navs = 1
    /\ href = "/login"
    /\ ev.pipe = "rejected"
    /\ ev.outcome = "rejected"

\* A 401 answered the verify call made after a login.
C2_Witness ==
  /\ StatusSettle(401)
  /\ ev.op = "verify"
  /\ ev.id = 2
  /\ settled[1] = 1
  /\ href = "/login"

\* C3: the store changes only in a login whose response carries a token,
\* in logout and in the handling of a 401; every other step of the
\* pipeline, of the auth flows and of both machines leaves it as it was.
C3_StoreWrittenOnlyBy ==
  [][localStorage' # localStorage =>
       \/ ev'.kind = "logout"
       \/ /\ ev'.kind = "settle"
          /\ ev'.op = "login"
          /\ ev'.transport.t = "obj"
          /\ Truthy(ev'.transport.data.token)
       \/ StatusSettleNext(401)]_vars

\* The session outlived a 403 while a machine was at work.
C3_Witness ==
  /\ StatusSettle(403)
  /\ isAuthenticated(localStorage)
  /\ apiPending # {}

\* C4: a failure other than a 401 rejects the caller's promise with the
\* failure object the transport produced, whether or not the error
\* response carries a body.
C4_RejectsWithSameFailure ==
  (FailedSettle /\ ~StatusSettle(401)) =>
    /\ ev.pipe = "rejected"
    /\ ev.pipeValue = ev.transport
    /\ ev.value = ev.transport

\* C5: every call is dispatched to the transport at most once and produces
\* exactly one outcome; a response resolves the call unchanged and a failure
\* never resolves it.
C5_OneOutcome ==
  /\ \A id \in CallIds :
       /\ dispatched[id] <= 1
       /\ settled[id] <= 1
       /\ (id < nextId) = (dispatched[id] = 1)
       /\ (settled[id] = 1) = (id < nextId /\ \A c \in inflight : c.id # id)
  /\ ev.kind = "settle" =>
       IF ev.transport.t = "obj"
       THEN ev.pipe = "resolved" /\ ev.pipeValue = ev.transport
       ELSE ev.pipe = "rejected" /\ ev.outcome = "rejected"

\* The first call resolved after the second one had settled.
C5_Witness ==
  /\ ev.kind = "settle"
  /\ ev.pipe = "resolved"
  /\ ev.id = 1
  /\ settled[2] = 1

\* The body of the login response that settled last.
LoginSettled == ev.kind = "settle" /\ ev.op = "login" /\ ev.transport.t = "obj"

\* C6: a login whose response body carries a token T and a user U leaves a
\* store that reports T and U (getCurrentUser returns U, isAuthenticated
\* holds) and returns the body; one whose body carries no token leaves the
\* store as it was.
C6_Login ==
  /\ [](LoginSettled =>
         /\ ev.outcome = "resolved"
         /\ ev.value = ev.transport.data
         /\ (Truthy(ev.value.token) /\ ev.value.user # Undefined) =>
              /\ getItem(localStorage, "token") = ev.value.token
              /\ isAuthenticated(localStorage)
              /\ getCurrentUser(localStorage) = [threw |-> FALSE, v |-> ev.value.user])
  /\ [][(LoginSettled' /\ ev' # ev /\ ~Truthy(ev'.value.token)) =>
          localStorage' = localStorage]_vars

\* A second session replaced the persisted one.
C6_Witness ==
  /\ LoginSettled
  /\ ev.value = [token |-> Str("xyz"), user |-> UserObj(2)]
  /\ getCurrentUser(localStorage).v = UserObj(2)

C8_LogoutIdempotent ==
  ev.kind = "logout" => localStorage = EmptyStore

\* Two logouts in succession.
C8_Witness ==
  /\ ev.kind = "logout"
  /\ ev.streak = 2

\* An invocation of execute made by this step with no other one pending,
\* and the settlement of one that ran with no other one pending.
InvokedAlone == ev'.kind = "execute" /\ ev'.id = apiNext /\ ev'.alone
ResolvedAlone == ev.kind = "executed" /\ ev.alone /\ ev.outcome = "resolved"

\* C9 as stated: execute moves loading from false to true, clears the
\* error and keeps the data; its settlement leaves data = X, no error and
\* loading false.
C9_AsStated ==
  /\ [][InvokedAlone =>
          /\ apiState.loading = FALSE
          /\ apiState' = [data |-> apiState.data, loading |-> TRUE, error |-> Null]]_vars
  /\ [](ResolvedAlone => apiState = [data |-> ev.value, loading |-> FALSE, error |-> Null])

\* C9, amended: execute leaves loading true (it was false before, except
\* for the invocation the mount effect makes, which finds the loading = true
\* the binding starts with), clears the error and keeps the data; its
\* settlement leaves data = X, no error and loading false.
C9_Execute ==
  /\ [][InvokedAlone =>
          /\ apiState.loading = (ev'.why = "mount")
          /\ apiState' = [data |-> apiState.data, loading |-> TRUE, error |-> Null]]_vars
  /\ [](ResolvedAlone => apiState = [data |-> ev.value, loading |-> FALSE, error |-> Null])

\* A second call, made after a failed one, resolved.
C9_Witness ==
  /\ ResolvedAlone
  /\ ev.id = 3
  /\ apiState.data = Str("Y")

\* C10: a failed call leaves data (and page, totalPages, totalItems) as
\* they were just before it settled, and leaves an error.
C10_FailureKeepsData ==
  [][/\ (ev'.kind = "executed" /\ ev' # ev /\ ev'.outcome = "rejected") =>
          /\ apiState'.data = apiState.data
          /\ apiState'.error # Null
     /\ (ev'.kind = "fetched" /\ ev' # ev /\ ev'.outcome = "rejected") =>
          /\ pgState'.data = pgState.data
          /\ pgState'.page = pgState.page
          /\ pgState'.totalPages = pgState.totalPages
          /\ pgState'.totalItems = pgState.totalItems
          /\ pgState'.error # Null]_vars

\* A failed refetch under the items of the fetch before it.
C10_Witness ==
  /\ ev.kind = "fetched"
  /\ ev.outcome = "rejected"
  /\ pgState.data = Array(<<[page |-> 1, item |-> "a"]>>)
  /\ pgState.totalPages = 3
  /\ pgState.error # Null

Present(v) == v \notin {Undefined, Null}

\* The message a failure is reported with, in the order of priority: the
\* server's message, else the failure's own message, else the fallback.
DerivedMessage(err, fallback) ==
  IF Present(ResponseMessage(err)) THEN ResponseMessage(err)
  ELSE IF Present(err.message) THEN err.message
  ELSE fallback

\* C11: in both machines a failure is reported with the server's message
\* when the failure carries one, else with the failure's own message when
\* it has one, else with the fallback literal.
C11_MessagePriority ==
  /\ []((ev.kind = "executed" /\ ev.outcome = "rejected") =>
          apiState.error = DerivedMessage(ev.value, Str("An error occurred")))
  /\ [][\A c \in pgPending, err \in PgErrors :
          PgSettleErr(c, err) =>
            pgState'.error = DerivedMessage(err, Str("Failed to fetch data"))]_vars

\* C12: the promise of execute resolves to the value the operation resolved
\* to, and rejects with the very failure the operation rejected with; when
\* it has rejected, the error is already published.
C12_PromiseMirrors ==
  ev.kind = "executed" =>
    /\ ev.promise = [outcome |-> ev.outcome, value |-> ev.value]
    /\ ev.outcome = "rejected" => Present(apiState.error)

\* A call rejected with the transport's failure, its message published.
C12_Witness ==
  /\ ev.kind = "executed"
  /\ ev.promise = [outcome |-> "rejected", value |-> NoResponseError]
  /\ apiState.error = Str("Network Error")

\* C13: once bound, loading is true exactly when an invocation is in
\* flight, in both machines.
C13_LoadingIffInFlight ==
  /\ apiMounted => (apiState.loading <=> apiPending # {})
  /\ pgMounted => (pgState.loading <=> pgPending # {})

\* C14: when every call has settled, the state is that of the call that
\* settled last: its result as data and no error if it resolved, its
\* message as error if it rejected.
C14_LastSettledWins ==
  (ev.kind = "executed" /\ apiPending = {}) =>
    IF ev.outcome = "resolved"
    THEN apiState.data = ev.value /\ apiState.error = Null
    ELSE apiState.error = DerivedMessage(ev.value, Str("An error occurred"))

\* C15: with auto-invoke on, the binding invokes the operation on its own
\* exactly once, with no arguments (every invocation made without a call of
\* execute is invocation 1, made when the binding's effect first ran); with
\* auto-invoke off it never invokes on its own and starts with loading false.
C15_AutoInvokeOnce ==
  /\ callOnMount =>
       /\ apiMounted => apiNext > 1
       /\ (ev.kind = "execute" /\ ev.why # "call") => (ev.id = 1 /\ ev.args = <<>>)
  /\ ~callOnMount =>
       /\ ev.kind = "execute" => ev.why = "call"
       /\ apiNext = 1 => ~apiState.loading

Max(a, b) == IF a >= b THEN a ELSE b

\* C16: once a fetch has completed, 1 <= page <= max(totalPages, 1).
C16_PageBounds ==
  (pgNext - 1 > Cardinality(pgPending)) =>
    /\ 1 <= pgState.page
    /\ pgState.page <= Max(pgState.totalPages, 1)

\* Whether every item of a published sequence was requested for page p.
ItemsOfPage(d, p) ==
  d.t = "array" => \A i \in 1..Len(d.items) : d.items[i].page = p

\* C17: when no fetch is in flight and the fetch completed last for the
\* current page succeeded, the items in data are those of a fetch issued
\* for the current page, never those of another page.
C17_DataOfCurrentPage ==
  (pgPending = {} /\ pgLast[pgState.page] = [ok |-> TRUE]) =>
    ItemsOfPage(pgState.data, pgState.page)

\* A step that issues exactly one fetch, for page p with the page size.
OneFetchFor(p) ==
  /\ pgNext' = pgNext + 1
  /\ pgPending' = pgPending \cup {[id |-> pgNext, params |-> [page |-> p, limit |-> DefaultPageSize]]}
  /\ Cardinality(pgPending') = Cardinality(pgPending) + 1

\* A step that issues no fetch and leaves the published state alone.
NoFetch == pgState' = pgState /\ pgNext' = pgNext /\ pgPending' = pgPending

\* C18: every change of page issues exactly one fetch, with
\* {page: the new page, limit: pageSize}.
C18_PageChangeFetches ==
  [][pgState'.page # pgState.page => OneFetchFor(pgState'.page)]_vars

\* nextPage has moved from page 1 to page 2 and its fetch is in flight.
C18_Witness ==
  /\ ev.kind = "fetch"
  /\ ev.why = "nextPage"
  /\ pgState.page = 2
  /\ ev.params = [page |-> 2, limit |-> DefaultPageSize]

\* C19: nextPage at page >= totalPages, prevPage at page <= 1 and
\* goToPage(n) with n < 1 or n > totalPages change nothing and issue no
\* fetch; otherwise they set page to page + 1, page - 1 and n.
C19_NavigationGuards ==
  [][/\ nextPage =>
          IF pgState.page >= pgState.totalPages THEN NoFetch
          ELSE pgState'.page = pgState.page + 1
     /\ prevPage =>
          IF pgState.page <= 1 THEN NoFetch
          ELSE pgState'.page = pgState.page - 1
     /\ \A n \in PageArgs :
          goToPage(n) =>
            IF n < 1 \/ n > pgState.totalPages THEN NoFetch
            ELSE pgState'.page = n]_vars

\* nextPage called on the last of three pages.
C19_Witness ==
  /\ ev = [kind |-> "noop", why |-> "nextPage"]
  /\ pgState.page = 3
  /\ pgState.totalPages = 3

\* C20: refetch() issues exactly one fetch, with {page: the current page,
\* limit: pageSize}, and leaves page as it is; no settlement changes page.
C20_Refetch ==
  [][/\ PgRefetch => (OneFetchFor(pgState.page) /\ pgState'.page = pgState.page)
     /\ (ev'.kind = "fetched" /\ ev' # ev) => pgState'.page = pgState.page]_vars

\* refetch() called on page 2 of 3.
C20_Witness ==
  /\ ev.kind = "fetch"
  /\ ev.why = "refetch"
  /\ ev.params = [page |-> 2, limit |-> DefaultPageSize]
  /\ pgState.page = 2
  /\ pgState.totalPages = 3

\* C21: a 401 that answers a call sent with another token than the one
\* stored when it arrives (a login stored a new session in between) is
\* handled like any other 401: the store is empty afterwards and the
\* navigation to the login page is triggered.
C21_StaleUnauthorized ==
  (StatusSettle(401) /\ ev.stale) =>
    /\ localStorage = EmptyStore
    /\ href = "/login"
    /\ ev.navs = 1

\* A call sent under the session of an earlier page load was answered 401
\* after login call 2 had stored its session.
C21_Witness ==
  /\ StatusSettle(401)
  /\ ev.stale
  /\ ev.op = "verify"
  /\ ev.id = 1
  /\ ev.carried = Str("Bearer abc")
  /\ ev.session = 2
  /\ localStorage = EmptyStore
  /\ href = "/login"

\* C22: when every issued call settles, a machine with calls in flight
\* reaches a state with none in flight and loading false; loading then
\* stays false until an invocation is issued, and every settlement, failed
\* ones included, leaves loading false.
C22_LoadingSettles ==
  /\ (apiPending # {}) ~> (apiPending = {} /\ ~apiState.loading)
  /\ (pgPending # {}) ~> (pgPending = {} /\ ~pgState.loading)
  /\ [][/\ (~apiState.loading /\ apiState'.loading) => apiNext' = apiNext + 1
        /\ (~pgState.loading /\ pgState'.loading) => pgNext' = pgNext + 1
        /\ (apiPending' # apiPending /\ apiNext' = apiNext) => ~apiState'.loading
        /\ (pgPending' # pgPending /\ pgNext' = pgNext) => ~pgState'.loading]_vars

\* The second of two calls has failed, none is in flight, loading is false.
C22_Witness ==
  /\ ev.kind = "executed"
  /\ ev.outcome = "rejected"
  /\ ev.id = 2
  /\ apiPending = {}
  /\ ~apiState.loading

====
